---- MODULE Spec2Model ----
(***************************************************************************)
(* Entitlement pipeline of the gated file-distribution bots: verification  *)
(* tokens (store, user bot, verification web server), user entitlement     *)
(* records and the download request of the user bot.                       *)
(*                                                                         *)
(* Time is a discrete clock `now` in seconds.  Documents of the store are  *)
(* records; a missing document is NullDoc, Python's None is the value      *)
(* None.  Handlers of the user bot are coroutines: a request occupies a    *)
(* slot and takes one step per store / gateway call it awaits; the web     *)
(* server, the admin bot and the clock run between those steps.            *)
(***************************************************************************)
EXTENDS Integers, FiniteSets, Sequences, TLC

VARIABLES
    now,       \* the wall clock, datetime.now()
    tokens,    \* collection verification_tokens: token_id -> document
    links,     \* the verification link sent to the user for each token
    users,     \* collection users_verification: user_id -> document
    settings,  \* collection admin_settings (numeric values parsed)
    req,       \* verify deep-link requests in progress in the user bot
    reply,     \* the screen the user bot sent last
    dl,        \* download requests in progress in the user bot
    files,     \* collection files: post_no -> document
    active,    \* the force-subscribe channels with is_active = True
    member,    \* chat gateway: status of each user in each channel
    copies     \* chat gateway: archive copies sent, per post

dlvars == <<dl, files, active, member, copies>>

vars == <<now, tokens, links, users, settings, req, reply, dlvars>>

(***************************************************************************)
(* Bounds of the model.                                                    *)
(***************************************************************************)
MaxTime == 7
\* VERIFICATION_TOKEN_EXPIRY is read from the environment (default 600 s);
\* the model runs a short configuration so that expiry happens before MaxTime.
TokenTtl == 6
\* Clock seconds that stand for one hour of timedelta(hours=...).
HourTicks == 3

\* Archive copies sent in one behaviour.
MaxCopies == 4
\* Last instant of the clock in the download specification.
DlMaxTime == 4
\* Clock seconds that stand for the 600 s of asyncio.sleep(600).
AutoDeleteTicks == 1

UserIds == {"u1", "u2"}
TokenIds == {"t1", "t2"}
Posts == {1, 2, 3, 4}
\* The posts requested in the download specification.
DlPosts == {1, 2, 3}
\* The channels in stored order ('order' ascending).
ChannelOrder == <<"chA", "chB">>
Channels == {"chA", "chB"}
Slots == {"r1", "r2"}
PeriodHours == {1, 2}
AccessLimits == {2, 3}

(***************************************************************************)
(* Values of the code.                                                     *)
(***************************************************************************)
None == -1
NullDoc == [null |-> TRUE]
TooFastSeconds == 5
StateChangeSeconds == 3
HardLimit == 3

\* VERIFICATION_PERIOD_HOURS is read from the environment (default 24); the
\* web server passes it to verify_user_manually.
VERIFICATION_PERIOD_HOURS == 1

(***************************************************************************)
(* Collection verification_tokens (database/operations/verification.py).   *)
(***************************************************************************)
create_verification_token(T, t, u, expiry_seconds, n) ==
    [T EXCEPT ![t] = [user_id |-> u, status |-> "pending", created_at |-> n,
                      expires_at |-> n + expiry_seconds, updated_at |-> n]]

get_verification_token(T, t) == IF t \in TokenIds THEN T[t] ELSE NullDoc

\* update_one({'token_id': token_id}, {'$set': ...}): no condition on the
\* stored status.  (completed_at, which nothing reads, is left out.)
update_token_status(T, t, status, n) ==
    IF get_verification_token(T, t) = NullDoc THEN T
    ELSE [T EXCEPT ![t] = [@ EXCEPT !.status = status, !.updated_at = n]]

mark_token_in_progress(T, t, n) == update_token_status(T, t, "in_progress", n)

mark_token_completed(T, t, n) == update_token_status(T, t, "completed", n)

mark_token_expired(T, t, n) == update_token_status(T, t, "expired", n)

has_user_pending_token(T, u, n) ==
    \E t \in TokenIds :
        /\ T[t] # NullDoc
        /\ T[t].user_id = u
        /\ T[t].status = "pending"
        /\ T[t].expires_at > n

invalidate_user_tokens(T, u, n) ==
    [t \in TokenIds |->
        IF T[t] # NullDoc /\ T[t].user_id = u
           /\ T[t].status \in {"pending", "in_progress"}
        THEN [T[t] EXCEPT !.status = "expired", !.updated_at = n]
        ELSE T[t]]

(***************************************************************************)
(* Collection users_verification (database/operations/users.py).           *)
(***************************************************************************)
NewUserDoc ==
    [is_verified |-> FALSE, verified_at |-> None, expires_at |-> None,
     files_accessed_count |-> 0, files_accessed |-> {}]

get_user_by_id(U, u) == U[u]

create_user(U, u) == IF U[u] # NullDoc THEN U ELSE [U EXCEPT ![u] = NewUserDoc]

\* The update without the reset of files_accessed.
verify_user_manually_keep_files(U, u, hours, n) ==
    [create_user(U, u) EXCEPT ![u] =
        [@ EXCEPT !.is_verified = TRUE, !.verified_at = n,
                  !.expires_at = n + hours * HourTicks,
                  !.files_accessed_count = 0]]

\* Creates the record when missing, then sets the verification fields and
\* clears the file counters.
verify_user_manually(U, u, hours, n) ==
    [create_user(U, u) EXCEPT ![u] =
        [@ EXCEPT !.is_verified = TRUE, !.verified_at = n,
                  !.expires_at = n + hours * HourTicks,
                  !.files_accessed_count = 0, !.files_accessed = {}]]

(***************************************************************************)
(* Initial state: empty collections apart from the seeded settings.        *)
(***************************************************************************)
IdleReq == [pc |-> "idle", user |-> "u1", token |-> "t1"]
IdleDl == [pc |-> "idle", user |-> "u1", post |-> 1, wake |-> 0]

\* Token ids are random strings (secrets.token_urlsafe): a new one is an id
\* not in the collection.
FreshToken(T) == IF T["t1"] = NullDoc THEN "t1" ELSE "t2"

\* Requests are anonymous: a new one takes the first free slot.
FreeSlot(R) == IF R["r1"].pc = "idle" THEN "r1" ELSE "r2"

\* file_access_limit as seeded by init_db.
DefaultAccessLimit == 3

Init ==
    /\ now = 0
    /\ tokens = [t \in TokenIds |-> NullDoc]
    /\ links = [t \in TokenIds |-> "none"]
    /\ users = [u \in UserIds |-> NullDoc]
    /\ settings \in [verification_period_hours : PeriodHours,
                      file_access_limit : {DefaultAccessLimit}]
    /\ req = [r \in Slots |-> IdleReq]
    /\ reply = "none"
    /\ dl = [r \in Slots |-> IdleDl]
    /\ files = [p \in Posts |-> NullDoc]
    /\ active = {}
    /\ member = [u \in UserIds |-> [c \in Channels |-> "left"]]
    /\ copies = [p \in Posts |-> 0]

Tick ==
    /\ now < MaxTime
    /\ now' = now + 1
    /\ UNCHANGED <<tokens, links, users, settings, req, reply, dlvars>>

(***************************************************************************)
(* Minting a token.                                                        *)
(***************************************************************************)
\* The early return of handle_verify_now for a user whose verification runs.
AlreadyVerified(U, u, n) ==
    /\ get_user_by_id(U, u) # NullDoc
    /\ U[u].is_verified
    /\ U[u].expires_at # None
    /\ U[u].expires_at > n

\* user_bot/handlers/verification.py, handle_verify_now: the Verify Now
\* button.  The token is stored first; the link (a shortlink whose
\* destination is the bot deep link verify-<token>) is sent when the shortlink
\* settings are present and the provider answers.
handle_verify_now(u, t, sent) ==
    IF AlreadyVerified(users, u, now)
    THEN /\ reply' = "ALREADY_VERIFIED"
         /\ UNCHANGED <<now, tokens, links, users, settings, req, dlvars>>
    ELSE /\ tokens[t] = NullDoc
         /\ t = FreshToken(tokens)
         /\ tokens' = create_verification_token(tokens, t, u, TokenTtl, now)
         /\ links' = [links EXCEPT ![t] = IF sent THEN "deep_link" ELSE "none"]
         /\ UNCHANGED <<now, users, settings, req, reply, dlvars>>

\* user_bot/utils/verification.py, generate_verification_link: expires the
\* user's open tokens when has_user_pending_token finds one, stores a new
\* token and wraps <server>/verify?token=<encoded> in a shortlink.
generate_verification_link(u, t, sent) ==
    /\ tokens[t] = NullDoc
    /\ t = FreshToken(tokens)
    /\ LET T1 == IF has_user_pending_token(tokens, u, now)
                 THEN invalidate_user_tokens(tokens, u, now)
                 ELSE tokens
       IN tokens' = create_verification_token(T1, t, u, TokenTtl, now)
    /\ links' = [links EXCEPT ![t] = IF sent THEN "server_verify" ELSE "none"]
    /\ UNCHANGED <<now, users, settings, req, reply, dlvars>>

\* user_bot/utils/token.py, invalidate_token (retire one token).
invalidate_token(t) ==
    /\ tokens[t] # NullDoc
    /\ tokens' = mark_token_expired(tokens, t, now)
    /\ UNCHANGED <<now, links, users, settings, req, reply, dlvars>>

(***************************************************************************)
(* Verification web server.                                                *)
(***************************************************************************)
\* GET /redirect?token=...: 404 unknown, 410 expired or completed, otherwise
\* mark_token_in_progress and a redirect to /verify.
handle_redirect(t) ==
    /\ get_verification_token(tokens, t) # NullDoc
    /\ ~(tokens[t].expires_at < now)
    /\ tokens[t].status # "completed"
    /\ tokens' = mark_token_in_progress(tokens, t, now)
    /\ UNCHANGED <<now, links, users, settings, req, reply, dlvars>>

\* GET /verify?token=...: the countdown page with the deep link verify-<token>
\* is rendered (200) exactly in this case; the handler writes nothing.
verification_page_ok(T, t, n) ==
    /\ get_verification_token(T, t) # NullDoc
    /\ ~(T[t].expires_at < n)
    /\ T[t].status # "completed"
    /\ T[t].status = "in_progress"

\* POST /complete {token_id, user_id}.
complete_verification(t, u) ==
    /\ get_verification_token(tokens, t) # NullDoc
    /\ tokens[t].user_id = u
    /\ tokens[t].status # "completed"
    /\ tokens' = mark_token_completed(tokens, t, now)
    /\ users' = verify_user_manually(users, u, VERIFICATION_PERIOD_HOURS, now)
    /\ UNCHANGED <<now, links, settings, req, reply, dlvars>>

(***************************************************************************)
(* User bot: /start verify-<token> (handle_verification_callback).         *)
(***************************************************************************)
\* The checks without the one on the stored status.
validate_checks_any_status(tok, u, n) ==
    IF tok = NullDoc THEN "TOKEN_ERROR"
    ELSE IF tok.user_id # u THEN "TOKEN_ERROR"
    ELSE IF tok.expires_at < n THEN "TOKEN_ERROR"
    ELSE IF tok.status = "completed" THEN "TOKEN_ERROR"
    ELSE IF n - tok.created_at < TooFastSeconds THEN "BYPASS_DETECTED"
    ELSE "accept"

\* The checks with the generic screen for every status but in_progress.
validate_checks_generic_state(tok, u, n) ==
    IF tok = NullDoc THEN "TOKEN_ERROR"
    ELSE IF tok.user_id # u THEN "TOKEN_ERROR"
    ELSE IF tok.expires_at < n THEN "TOKEN_ERROR"
    ELSE IF tok.status # "in_progress" THEN "TOKEN_ERROR"
    ELSE IF n - tok.created_at < TooFastSeconds THEN "BYPASS_DETECTED"
    ELSE "accept"

\* The checks with a traversal floor that also rejects at exactly 5 s.
validate_checks_floor_inclusive(tok, u, n) ==
    IF tok = NullDoc THEN "TOKEN_ERROR"
    ELSE IF tok.user_id # u THEN "TOKEN_ERROR"
    ELSE IF tok.expires_at < n THEN "TOKEN_ERROR"
    ELSE IF tok.status = "completed" THEN "TOKEN_ERROR"
    ELSE IF tok.status # "in_progress" THEN "BYPASS_DETECTED"
    ELSE IF n - tok.created_at <= TooFastSeconds THEN "BYPASS_DETECTED"
    ELSE "accept"

\* The checks with an expiry test that also rejects at exactly expires_at.
validate_checks_expiry_inclusive(tok, u, n) ==
    IF tok = NullDoc THEN "TOKEN_ERROR"
    ELSE IF tok.user_id # u THEN "TOKEN_ERROR"
    ELSE IF tok.expires_at <= n THEN "TOKEN_ERROR"
    ELSE IF tok.status = "completed" THEN "TOKEN_ERROR"
    ELSE IF tok.status # "in_progress" THEN "BYPASS_DETECTED"
    ELSE IF n - tok.created_at < TooFastSeconds THEN "BYPASS_DETECTED"
    ELSE "accept"

\* The checks of handle_verification_callback on the token it read, in the
\* order of the code: the screen of the rejection, or "accept".
validate_checks(tok, u, n) ==
    IF tok = NullDoc THEN "TOKEN_ERROR"
    ELSE IF tok.user_id # u THEN "TOKEN_ERROR"
    ELSE IF tok.expires_at < n THEN "TOKEN_ERROR"
    ELSE IF tok.status = "completed" THEN "TOKEN_ERROR"
    ELSE IF tok.status # "in_progress" THEN "BYPASS_DETECTED"
    ELSE IF n - tok.created_at < TooFastSeconds THEN "BYPASS_DETECTED"
    ELSE "accept"

\* start_command creates the user record when missing, handle_deep_link
\* dispatches verify-<token>, the handler reads the token and checks it.
StartVerify(r, u, t) ==
    /\ req[r].pc = "idle"
    /\ r = FreeSlot(req)
    /\ users' = create_user(users, u)
    /\ LET out == validate_checks(get_verification_token(tokens, t), u, now)
       IN IF out = "accept"
          THEN /\ req' = [req EXCEPT ![r] = [pc |-> "mark_completed",
                                             user |-> u, token |-> t]]
               /\ UNCHANGED reply
          ELSE /\ reply' = out
               /\ UNCHANGED req
    /\ UNCHANGED <<now, tokens, links, settings, dlvars>>

\* Any user may send /start with any verify-<token> payload.
DeepLinkVerify(r, u, t) == StartVerify(r, u, t)

\* The user follows the link that was sent for the token: a deep link leads
\* straight to the bot, a server link to /verify, whose page (when rendered)
\* leads to the bot.
FollowLink(r, t) ==
    /\ tokens[t] # NullDoc
    /\ \/ links[t] = "deep_link"
       \/ links[t] = "server_verify" /\ verification_page_ok(tokens, t, now)
    /\ StartVerify(r, tokens[t].user_id, t)

\* await mark_token_completed(token_id)
ValidateMarkCompleted(r) ==
    /\ req[r].pc = "mark_completed"
    /\ tokens' = mark_token_completed(tokens, req[r].token, now)
    /\ req' = [req EXCEPT ![r].pc = "verify_user"]
    /\ UNCHANGED <<now, links, users, settings, reply, dlvars>>

\* await verify_user_manually(...), then the VERIFIED_SUCCESS reply.
ValidateVerifyUser(r) ==
    /\ req[r].pc = "verify_user"
    /\ users' = verify_user_manually(users, req[r].user,
                                     settings.verification_period_hours, now)
    /\ req' = [req EXCEPT ![r] = IdleReq]
    /\ reply' = "VERIFIED_SUCCESS"
    /\ UNCHANGED <<now, tokens, links, settings, dlvars>>

(***************************************************************************)
(* Specification of the verification flow.  The user bot is built without  *)
(* concurrent_updates: it takes the next update when the handler of the    *)
(* previous one has returned.  The web server is another process, and the  *)
(* clock runs, between the store calls of a handler.                       *)
(***************************************************************************)
BotIdle == \A r \in Slots : req[r].pc = "idle" /\ dl[r].pc = "idle"

Next ==
    \/ Tick
    \/ \E u \in UserIds, sent \in BOOLEAN :
            BotIdle /\ handle_verify_now(u, "t1", sent)
    \/ \E u \in UserIds, sent \in BOOLEAN :
            BotIdle /\ generate_verification_link(u, "t1", sent)
    \/ \E t \in TokenIds : BotIdle /\ invalidate_token(t)
    \/ \E t \in TokenIds : handle_redirect(t)
    \/ \E t \in TokenIds, u \in UserIds : complete_verification(t, u)
    \/ \E r \in Slots, u \in UserIds, t \in TokenIds :
            BotIdle /\ DeepLinkVerify(r, u, t)
    \/ \E r \in Slots, t \in TokenIds : BotIdle /\ FollowLink(r, t)
    \/ \E r \in Slots : ValidateMarkCompleted(r)
    \/ \E r \in Slots : ValidateVerifyUser(r)

Spec == Init /\ [][Next]_vars

(***************************************************************************)
(* The same handlers when two updates are handled at once, each await a    *)
(* point where the other handler may run.                                  *)
(***************************************************************************)
NextRace ==
    \/ Tick
    \/ \E u \in UserIds, sent \in BOOLEAN : handle_verify_now(u, "t1", sent)
    \/ \E t \in TokenIds : handle_redirect(t)
    \/ \E r \in Slots, u \in UserIds, t \in TokenIds : DeepLinkVerify(r, u, t)
    \/ \E r \in Slots, t \in TokenIds : FollowLink(r, t)
    \/ \E r \in Slots : ValidateMarkCompleted(r)
    \/ \E r \in Slots : ValidateVerifyUser(r)

SpecRace == Init /\ [][NextRace]_vars

(***************************************************************************)
(* Minting alone: both token ids may be issued.                            *)
(***************************************************************************)
NextMint ==
    \/ Tick
    \/ \E u \in UserIds, t \in TokenIds, sent \in BOOLEAN :
            handle_verify_now(u, t, sent)
    \/ \E u \in UserIds, t \in TokenIds, sent \in BOOLEAN :
            generate_verification_link(u, t, sent)
    \/ \E t \in TokenIds : handle_redirect(t)

SpecMint == Init /\ [][NextMint]_vars

(***************************************************************************)
(* Download request of the user bot: /start get-<post_no>.                 *)
(***************************************************************************)
\* The status test alone, without the except branch.
check_user_subscribed_error_passes(status) == status \notin {"left", "kicked"}

\* user_bot/utils/force_sub.py, check_user_subscribed: a gateway error is the
\* status "error".
check_user_subscribed(status) ==
    IF status = "error" THEN FALSE ELSE status \notin {"left", "kicked"}

\* database/operations/channels.py, get_active_channels: sorted by order.
get_active_channels(A) == SelectSeq(ChannelOrder, LAMBDA c : c \in A)

\* The listing without the is_active filter.
get_unsubscribed_channels_all_channels(A, M, u) ==
    SelectSeq(ChannelOrder, LAMBDA c : ~check_user_subscribed(M[u][c]))

\* user_bot/utils/force_sub.py, get_unsubscribed_channels: the active
\* channels the user is not subscribed to, in the order of the listing.
get_unsubscribed_channels(A, M, u) ==
    SelectSeq(get_active_channels(A),
              LAMBDA c : ~check_user_subscribed(M[u][c]))

\* The membership gate of handle_download_request: the request stops with
\* the subscribe screen unless no channel is missing.
force_sub_passed(A, M, u) == Len(get_unsubscribed_channels(A, M, u)) = 0

\* The verification gate of handle_download_request.
check_user_verification(U, u, n) ==
    /\ U[u] # NullDoc
    /\ U[u].is_verified
    /\ U[u].expires_at # None
    /\ ~(n > U[u].expires_at)

\* user_bot/middleware/user_check.py, check_verification: the status it
\* returns; the user passes when it is "verified".
check_verification(U, u, n) ==
    IF get_user_by_id(U, u) = NullDoc THEN "user_not_found"
    ELSE IF ~U[u].is_verified THEN "not_verified"
    ELSE IF U[u].expires_at = None THEN "no_expiry"
    ELSE IF U[u].expires_at < n THEN "expired"
    ELSE "verified"

\* database/operations/users.py, is_user_verified (wrapped by
\* user_bot/utils/verification.py): find_one with is_verified True and
\* expires_at $gt now.
is_user_verified(U, u, n) ==
    /\ U[u] # NullDoc
    /\ U[u].is_verified
    /\ U[u].expires_at # None
    /\ U[u].expires_at > n

\* database/operations/files.py: find_one by post_no.
get_file_by_post_no(F, p) == IF p \in Posts THEN F[p] ELSE NullDoc

\* database/operations/files.py
increment_download_count(F, p) ==
    IF F[p] = NullDoc THEN F
    ELSE [F EXCEPT ![p].download_count = @ + 1]

\* database/operations/users.py: $inc, $addToSet and $set in one update.
increment_user_file_access(U, u, p) ==
    IF U[u] = NullDoc THEN U
    ELSE [U EXCEPT ![u].files_accessed_count = @ + 1,
                   ![u].files_accessed = @ \cup {p}]

\* The quota check of send_file_to_user.
limit_reached(user) == user.files_accessed_count >= HardLimit

TotalCopies == copies[1] + copies[2] + copies[3] + copies[4]

\* start_command, handle_deep_link, handle_download_request and the reads of
\* send_file_to_user up to the quota check.
StartDownload(r, u, p) ==
    /\ dl[r].pc = "idle"
    /\ r = FreeSlot(dl)
    /\ TotalCopies < MaxCopies
    /\ users' = create_user(users, u)
    /\ LET out ==
            IF ~force_sub_passed(active, member, u) THEN "FORCE_SUB"
            ELSE IF ~check_user_verification(users', u, now)
                 THEN "VERIFICATION"
            ELSE IF get_file_by_post_no(files, p) = NullDoc
                 THEN "FILE_NOT_FOUND"
            ELSE IF limit_reached(users'[u]) THEN "LIMIT_REACHED"
            ELSE "copy"
       IN IF out = "copy"
          THEN /\ dl' = [dl EXCEPT ![r] = [pc |-> "copy", user |-> u,
                                           post |-> p, wake |-> 0]]
               /\ UNCHANGED reply
          ELSE /\ reply' = out
               /\ UNCHANGED dl
    /\ UNCHANGED <<now, tokens, links, settings, req, files, active, member,
                   copies>>

\* The copy step with the counters written although the gateway raised.
DlCopy_counts_on_failure(r, ok) ==
    /\ dl[r].pc = "copy"
    /\ IF ok
       THEN /\ copies' = [copies EXCEPT ![dl[r].post] = @ + 1]
            /\ dl' = [dl EXCEPT ![r].pc = "warn"]
            /\ UNCHANGED <<reply, files, users>>
       ELSE /\ dl' = [dl EXCEPT ![r] = IdleDl]
            /\ reply' = "ERROR_SENDING"
            /\ files' = increment_download_count(files, dl[r].post)
            /\ users' = increment_user_file_access(users, dl[r].user,
                                                   dl[r].post)
            /\ UNCHANGED copies
    /\ UNCHANGED <<now, tokens, links, settings, req, active, member>>

\* context.bot.copy_message: the archive reaches the user, or the gateway
\* raises and the handler answers "Error sending file".
DlCopy(r, ok) ==
    /\ dl[r].pc = "copy"
    /\ IF ok
       THEN /\ copies' = [copies EXCEPT ![dl[r].post] = @ + 1]
            /\ dl' = [dl EXCEPT ![r].pc = "warn"]
            /\ UNCHANGED reply
       ELSE /\ dl' = [dl EXCEPT ![r] = IdleDl]
            /\ reply' = "ERROR_SENDING"
            /\ UNCHANGED copies
    /\ UNCHANGED <<now, tokens, links, users, settings, req, files, active,
                   member>>

\* update.message.reply_text(AUTO_DELETE_WARNING): sent, or the gateway
\* raises and the handler answers "Error sending file".
DlWarn(r, ok) ==
    /\ dl[r].pc = "warn"
    /\ IF ok
       THEN /\ dl' = [dl EXCEPT ![r].pc = "count_file"]
            /\ UNCHANGED reply
       ELSE /\ dl' = [dl EXCEPT ![r] = IdleDl]
            /\ reply' = "ERROR_SENDING"
    /\ UNCHANGED <<now, tokens, links, users, settings, req, files, active,
                   member, copies>>

\* await increment_download_count(post_no)
DlCountFile(r) ==
    /\ dl[r].pc = "count_file"
    /\ files' = increment_download_count(files, dl[r].post)
    /\ dl' = [dl EXCEPT ![r].pc = "count_user"]
    /\ UNCHANGED <<now, tokens, links, users, settings, req, reply, active,
                   member, copies>>

\* await increment_user_file_access(user_id, post_no); then asyncio.sleep.
DlCountUser(r) ==
    /\ dl[r].pc = "count_user"
    /\ users' = increment_user_file_access(users, dl[r].user, dl[r].post)
    /\ dl' = [dl EXCEPT ![r].pc = "sleep", ![r].wake = now + AutoDeleteTicks]
    /\ UNCHANGED <<now, tokens, links, settings, req, reply, files, active,
                   member, copies>>

\* After the sleep: both messages are deleted and send_deleted_message sends
\* the re-access link get-<post_no>.
DlWake(r) ==
    /\ dl[r].pc = "sleep"
    /\ now >= dl[r].wake
    /\ dl' = [dl EXCEPT ![r] = IdleDl]
    /\ reply' = "FILE_DELETED"
    /\ UNCHANGED <<now, tokens, links, users, settings, req, files, active,
                   member, copies>>

(***************************************************************************)
(* Operator and environment.                                               *)
(***************************************************************************)
\* admin_bot/handlers/verification.py, verify_user_command: /verifyuser.
verify_user_command(u, hours) ==
    /\ get_user_by_id(users, u) # NullDoc
    /\ hours >= 1
    /\ hours <= 8760
    /\ users' = verify_user_manually(users, u, hours, now)
    /\ UNCHANGED <<now, tokens, links, settings, req, reply, dlvars>>

\* database/operations/users.py
reset_user_file_limit(U, u) ==
    IF U[u] = NullDoc THEN U
    ELSE [U EXCEPT ![u].files_accessed_count = 0, ![u].files_accessed = {}]

\* admin_bot/handlers/verification.py, reset_user_limit_command: /resetlimit.
reset_user_limit_command(u) ==
    /\ get_user_by_id(users, u) # NullDoc
    /\ users[u].files_accessed_count # 0
    /\ users' = reset_user_file_limit(users, u)
    /\ UNCHANGED <<now, tokens, links, settings, req, reply, dlvars>>

\* A user joins or leaves a channel.
SetMembership(u, c, status) ==
    /\ member[u][c] # status
    /\ member' = [member EXCEPT ![u][c] = status]
    /\ UNCHANGED <<now, tokens, links, users, settings, req, reply, dl, files,
                   active, copies>>

(***************************************************************************)
(* Specification of the download pipeline: the files are uploaded, the     *)
(* channel list is configured, one user sends requests.                    *)
(***************************************************************************)
InitDownload ==
    /\ now = 0
    /\ tokens = [t \in TokenIds |-> NullDoc]
    /\ links = [t \in TokenIds |-> "none"]
    /\ users = [u \in UserIds |-> NullDoc]
    /\ settings \in [verification_period_hours : {1},
                      file_access_limit : AccessLimits]
    /\ req = [r \in Slots |-> IdleReq]
    /\ reply = "none"
    /\ dl = [r \in Slots |-> IdleDl]
    /\ files = [p \in Posts |-> [download_count |-> 0]]
    /\ active \in {{}, {"chA"}}
    /\ member = [u \in UserIds |-> [c \in Channels |-> "left"]]
    /\ copies = [p \in Posts |-> 0]

NextDownload ==
    \/ (now < DlMaxTime /\ Tick)
    \/ verify_user_command("u1", 1)
    \/ reset_user_limit_command("u1")
    \/ \E st \in {"member", "left"} : SetMembership("u1", "chA", st)
    \/ \E r \in Slots, p \in DlPosts : BotIdle /\ StartDownload(r, "u1", p)
    \/ \E r \in Slots, ok \in BOOLEAN : DlCopy(r, ok)
    \/ \E r \in Slots, ok \in BOOLEAN : DlWarn(r, ok)
    \/ \E r \in Slots : DlCountFile(r)
    \/ \E r \in Slots : DlCountUser(r)
    \/ \E r \in Slots : DlWake(r)

SpecDownload == InitDownload /\ [][NextDownload]_vars

(***************************************************************************)
(* The download handler when two updates are handled at once.  The start   *)
(* is the state of SpecDownload in which the user, verified at 0, has been *)
(* sent posts 1 and 2 and both deliveries have ended.                      *)
(***************************************************************************)
RacePosts == {3, 4}

InitDownloadRace ==
    /\ now = 2 * AutoDeleteTicks
    /\ tokens = [t \in TokenIds |-> NullDoc]
    /\ links = [t \in TokenIds |-> "none"]
    /\ users = [u \in UserIds |->
                  IF u = "u1"
                  THEN [is_verified |-> TRUE, verified_at |-> 0,
                        expires_at |-> HourTicks, files_accessed_count |-> 2,
                        files_accessed |-> {1, 2}]
                  ELSE NullDoc]
    /\ settings = [verification_period_hours |-> 1,
                   file_access_limit |-> DefaultAccessLimit]
    /\ req = [r \in Slots |-> IdleReq]
    /\ reply = "FILE_DELETED"
    /\ dl = [r \in Slots |-> IdleDl]
    /\ files = [p \in Posts |->
                  [download_count |-> IF p \in {1, 2} THEN 1 ELSE 0]]
    /\ active = {}
    /\ member = [u \in UserIds |-> [c \in Channels |-> "left"]]
    /\ copies = [p \in Posts |-> IF p \in {1, 2} THEN 1 ELSE 0]

NextDownloadRace ==
    \/ (now < DlMaxTime /\ Tick)
    \/ \E r \in Slots, p \in RacePosts : StartDownload(r, "u1", p)
    \/ \E r \in Slots, ok \in BOOLEAN : DlCopy(r, ok)
    \/ \E r \in Slots, ok \in BOOLEAN : DlWarn(r, ok)
    \/ \E r \in Slots : DlCountFile(r)
    \/ \E r \in Slots : DlCountUser(r)
    \/ \E r \in Slots : DlWake(r)

SpecDownloadRace == InitDownloadRace /\ [][NextDownloadRace]_vars

(***************************************************************************)
(* Renewal of an entitlement: one user, whose record is any record the     *)
(* download pipeline and the operator commands leave behind (verified at 0 *)
(* for one hour, or unverified by /unverify, with up to three deliveries   *)
(* counted), goes through the verification flow.                           *)
(***************************************************************************)
InitNow == 2

EntitleDocs ==
    {NullDoc, NewUserDoc} \cup
    {[is_verified |-> v,
      verified_at |-> IF v THEN 0 ELSE None,
      expires_at |-> IF v THEN HourTicks ELSE None,
      files_accessed_count |-> c,
      files_accessed |-> S] :
        v \in BOOLEAN, c \in 1..HardLimit,
        S \in {X \in SUBSET DlPosts : X # {}}}

InitEntitle ==
    /\ now = InitNow
    /\ tokens = [t \in TokenIds |-> NullDoc]
    /\ links = [t \in TokenIds |-> "none"]
    /\ \E d \in EntitleDocs :
          /\ d \notin {NullDoc, NewUserDoc}
                => Cardinality(d.files_accessed) <= d.files_accessed_count
          /\ users = [u \in UserIds |-> IF u = "u1" THEN d ELSE NullDoc]
    /\ settings \in [verification_period_hours : PeriodHours,
                      file_access_limit : {DefaultAccessLimit}]
    /\ req = [r \in Slots |-> IdleReq]
    /\ reply = "none"
    /\ dl = [r \in Slots |-> IdleDl]
    /\ files = [p \in Posts |-> [download_count |-> 0]]
    /\ active = {}
    /\ member = [u \in UserIds |-> [c \in Channels |-> "left"]]
    /\ copies = [p \in Posts |-> 0]

NextEntitle ==
    \/ Tick
    \/ \E sent \in BOOLEAN : BotIdle /\ handle_verify_now("u1", "t1", sent)
    \/ handle_redirect("t1")
    \/ \E r \in Slots : BotIdle /\ DeepLinkVerify(r, "u1", "t1")
    \/ \E r \in Slots : ValidateMarkCompleted(r)
    \/ \E r \in Slots : ValidateVerifyUser(r)

SpecEntitle == InitEntitle /\ [][NextEntitle]_vars

(***************************************************************************)
(* Specification of the operator commands on the entitlement: /verifyuser, *)
(* /unverifyuser, /extendverification and /bulkverify next to the token    *)
(* verification of the user bot.                                           *)
(***************************************************************************)
\* Hours an operator types after /bulkverify: int(context.args[0]) is used
\* as parsed.
BulkHours == {-1, 1}

\* Lists of user ids an operator types after the hours.
BulkLists == {{"u1", "u2"}}

\* Largest expires_at the extension is followed to.
MaxExpiry == 9

\* database/operations/users.py
unverify_user(U, u) ==
    IF U[u] = NullDoc THEN U
    ELSE [U EXCEPT ![u].is_verified = FALSE, ![u].verified_at = None,
                   ![u].expires_at = None]

\* admin_bot/handlers/verification.py, unverify_user_command: /unverifyuser.
unverify_user_command(u) ==
    /\ get_user_by_id(users, u) # NullDoc
    /\ users[u].is_verified
    /\ users' = unverify_user(users, u)
    /\ UNCHANGED <<now, tokens, links, settings, req, reply, dlvars>>

\* database/operations/users.py, update_user_verification with expires_at.
update_user_verification(U, u, expires_at) ==
    IF U[u] = NullDoc THEN U ELSE [U EXCEPT ![u].expires_at = expires_at]

\* admin_bot/handlers/verification.py, extend_verification_command:
\* /extendverification.
extend_verification_command(u, additional_hours) ==
    /\ additional_hours >= 1
    /\ get_user_by_id(users, u) # NullDoc
    /\ users[u].is_verified
    /\ users[u].expires_at # None
    /\ users[u].expires_at + additional_hours * HourTicks <= MaxExpiry
    /\ users' = update_user_verification(users, u,
                    users[u].expires_at + additional_hours * HourTicks)
    /\ UNCHANGED <<now, tokens, links, settings, req, reply, dlvars>>

\* admin_bot/handlers/verification.py, bulk_verify_command: /bulkverify
\* <hours> <user ids>; verify_user_manually for every listed id.
bulk_verify_command(hours, user_ids) ==
    /\ user_ids # {}
    /\ users' = [u \in UserIds |->
                    IF u \in user_ids
                    THEN verify_user_manually(users, u, hours, now)[u]
                    ELSE users[u]]
    /\ UNCHANGED <<now, tokens, links, settings, req, reply, dlvars>>

NextAdmin ==
    \/ Tick
    \/ verify_user_command("u1", 1)
    \/ unverify_user_command("u1")
    \/ extend_verification_command("u1", 1)
    \/ \E h \in BulkHours, S \in BulkLists : bulk_verify_command(h, S)
    \/ \E sent \in BOOLEAN : BotIdle /\ handle_verify_now("u1", "t1", sent)
    \/ handle_redirect("t1")
    \/ \E r \in Slots : BotIdle /\ DeepLinkVerify(r, "u1", "t1")
    \/ \E r \in Slots : ValidateMarkCompleted(r)
    \/ \E r \in Slots : ValidateVerifyUser(r)

SpecAdmin == Init /\ [][NextAdmin]_vars

(***************************************************************************)
(* Deep-link payloads (shared/encryption.py).  A text is a sequence of     *)
(* one-character strings; an encoded start parameter is a sequence of      *)
(* base64 digits 0..63, with Pad for the character "=".                    *)
(***************************************************************************)
Pad == 64

\* The characters the payloads are written with.
Alphabet ==
    {"g", "e", "t", "v", "r", "i", "f", "y", "x", "-", "0", "1", "2", "3",
     "4"}

\* str.encode(): the ASCII code of a character.
Ord(c) ==
    CASE c = "g" -> 103 [] c = "e" -> 101 [] c = "t" -> 116 [] c = "v" -> 118
      [] c = "r" -> 114 [] c = "i" -> 105 [] c = "f" -> 102 [] c = "y" -> 121
      [] c = "x" -> 120 [] c = "-" -> 45 [] c = "0" -> 48 [] c = "1" -> 49
      [] c = "2" -> 50 [] c = "3" -> 51 [] c = "4" -> 52

\* bytes.decode(): the character of a byte; "?" stands for every character
\* outside Alphabet.
Chr(b) ==
    IF \E c \in Alphabet : Ord(c) = b
    THEN CHOOSE c \in Alphabet : Ord(c) = b
    ELSE "?"

\* What decode_url_safe raises.
ValueError == <<"ValueError">>

RECURSIVE b64_digits(_)
\* base64.urlsafe_b64encode without the padding: three bytes give four
\* digits, a last single byte two digits, a last pair of bytes three.
b64_digits(b) ==
    IF Len(b) = 0 THEN <<>>
    ELSE IF Len(b) = 1
         THEN <<b[1] \div 4, (b[1] % 4) * 16>>
    ELSE IF Len(b) = 2
         THEN <<b[1] \div 4, (b[1] % 4) * 16 + b[2] \div 16,
                (b[2] % 16) * 4>>
    ELSE <<b[1] \div 4, (b[1] % 4) * 16 + b[2] \div 16,
           (b[2] % 16) * 4 + b[3] \div 64, b[3] % 64>>
         \o b64_digits(SubSeq(b, 4, Len(b)))

RECURSIVE b64_bytes(_)
\* binascii.a2b_base64 on the digits before the padding: four digits give
\* three bytes, two last digits one byte, three last digits two bytes.
b64_bytes(d) ==
    IF Len(d) < 2 THEN <<>>
    ELSE IF Len(d) = 2
         THEN <<d[1] * 4 + d[2] \div 16>>
    ELSE IF Len(d) = 3
         THEN <<d[1] * 4 + d[2] \div 16, (d[2] % 16) * 16 + d[3] \div 4>>
    ELSE <<d[1] * 4 + d[2] \div 16, (d[2] % 16) * 16 + d[3] \div 4,
           (d[3] % 4) * 64 + d[4]>>
         \o b64_bytes(SubSeq(d, 5, Len(d)))

RECURSIVE rstrip_pad(_)
\* str.rstrip('=')
rstrip_pad(s) ==
    IF Len(s) > 0 /\ s[Len(s)] = Pad
    THEN rstrip_pad(SubSeq(s, 1, Len(s) - 1))
    ELSE s

\* encode_url_safe: urlsafe_b64encode, then the padding is removed.
encode_url_safe(text) ==
    LET bytes == [i \in 1..Len(text) |-> Ord(text[i])]
        digits == b64_digits(bytes)
        fill == (4 - (Len(digits) % 4)) % 4
        encoded == digits \o [i \in 1..fill |-> Pad]
    IN rstrip_pad(encoded)

\* decode_url_safe: the padding is put back, urlsafe_b64decode, decode().
\* The decoder stops with an error when the digits before the padding are
\* one more than a multiple of four or the padding is too short, and
\* decode() when a byte is not ASCII.
decode_url_safe(encoded_data) ==
    LET padding == 4 - (Len(encoded_data) % 4)
        padded == IF padding # 4
                  THEN encoded_data \o [i \in 1..padding |-> Pad]
                  ELSE encoded_data
        digits == rstrip_pad(padded)
        pads == Len(padded) - Len(digits)
        bytes == b64_bytes(digits)
    IN IF \/ Len(digits) % 4 = 1
          \/ Len(digits) % 4 = 2 /\ pads < 2
          \/ Len(digits) % 4 = 3 /\ pads < 1
       THEN ValueError
       ELSE IF \E i \in 1..Len(bytes) : bytes[i] >= 128
       THEN ValueError
       ELSE [i \in 1..Len(bytes) |-> Chr(bytes[i])]

RECURSIVE str(_)
\* str(int) of a non-negative number: its decimal digits.
str(n) ==
    LET digit == CASE n % 10 = 0 -> "0" [] n % 10 = 1 -> "1"
                   [] n % 10 = 2 -> "2" [] n % 10 = 3 -> "3"
                   [] n % 10 = 4 -> "4" [] OTHER -> "?"
    IN IF n < 10 THEN <<digit>> ELSE str(n \div 10) \o <<digit>>

(***************************************************************************)
(* Specification of the membership gate: the operator toggles channels,    *)
(* the user's status in each channel changes, the user sends requests.     *)
(***************************************************************************)
\* ChatMember.status values of the gateway; "error" is a TelegramError
\* raised by get_chat_member.
MemberStatuses ==
    {"creator", "administrator", "member", "restricted", "left", "kicked",
     "error"}

\* database/operations/channels.py, toggle_channel_status
toggle_channel_status(A, c) == IF c \in A THEN A \ {c} ELSE A \cup {c}

\* admin_bot/handlers/channels.py: the toggle button of a channel.
toggle_channel(c) ==
    /\ active' = toggle_channel_status(active, c)
    /\ UNCHANGED <<now, tokens, links, users, settings, req, reply, dl, files,
                   member, copies>>

\* user_bot/middleware/user_check.py, check_force_subscribe(bot, user_id):
\* the active channels with status left or kicked or with a TelegramError.
user_check_force_subscribe(A, M, u) ==
    LET unsubscribed ==
            SelectSeq(get_active_channels(A),
                      LAMBDA c : M[u][c] \in {"left", "kicked"}
                                 \/ M[u][c] = "error")
    IN [is_subscribed_all |-> Len(unsubscribed) = 0,
        unsubscribed |-> unsubscribed]

\* user_bot/keyboards/inline.py, force_subscribe_keyboard: one row per
\* channel in the order of the list, then the try-again row.
force_subscribe_keyboard(channels, try_again_link) ==
    [buttons |-> channels, try_again |-> try_again_link]

\* user_bot/utils/force_sub.py, check_force_subscribe(bot, user_id,
\* username, post_no): passes, or the keyboard of the subscribe screen.
check_force_subscribe(A, M, u, post_no) ==
    LET unsubscribed_channels == get_unsubscribed_channels(A, M, u)
        deep_link_data == <<"g", "e", "t", "-">> \o str(post_no)
    IN IF Len(unsubscribed_channels) = 0
       THEN [ok |-> TRUE, keyboard |-> force_subscribe_keyboard(<<>>, <<>>)]
       ELSE [ok |-> FALSE,
             keyboard |-> force_subscribe_keyboard(
                              unsubscribed_channels,
                              encode_url_safe(deep_link_data))]

InitForceSub ==
    /\ now = 0
    /\ tokens = [t \in TokenIds |-> NullDoc]
    /\ links = [t \in TokenIds |-> "none"]
    /\ users = [u \in UserIds |-> NullDoc]
    /\ settings \in [verification_period_hours : {1},
                      file_access_limit : {DefaultAccessLimit}]
    /\ req = [r \in Slots |-> IdleReq]
    /\ reply = "none"
    /\ dl = [r \in Slots |-> IdleDl]
    /\ files = [p \in Posts |-> [download_count |-> 0]]
    /\ active \in SUBSET Channels
    /\ member \in [UserIds -> [Channels -> {"left"}]]
    /\ copies = [p \in Posts |-> 0]

NextForceSub ==
    \/ \E c \in Channels : toggle_channel(c)
    \/ \E c \in Channels, st \in MemberStatuses : SetMembership("u1", c, st)
    \/ \E r \in Slots, p \in DlPosts : BotIdle /\ StartDownload(r, "u1", p)

SpecForceSub == InitForceSub /\ [][NextForceSub]_vars

(***************************************************************************)
(* Specification of the store's housekeeping: the indexes declared by      *)
(* config/database.py create_indexes and the cleanup operations, next to   *)
(* operator verifications and the clock.                                   *)
(***************************************************************************)
\* Default of cleanup_expired_tokens(hours).
GraceHours == 24

\* create_index([('expires_at', 1)], expireAfterSeconds=0) on
\* users_verification: where the store accepts the declaration, its TTL
\* monitor removes a document whose expires_at date has passed; where it
\* rejects it (an index on the same key was declared the line before), this
\* step never happens.
ttl_monitor(u) ==
    /\ users[u] # NullDoc
    /\ users[u].expires_at # None
    /\ users[u].expires_at < now
    /\ users' = [users EXCEPT ![u] = NullDoc]
    /\ UNCHANGED <<now, tokens, links, settings, req, reply, dlvars>>

\* database/operations/users.py, cleanup_expired_verifications
cleanup_expired_verifications ==
    /\ \E u \in UserIds :
          users[u] # NullDoc /\ users[u].is_verified
          /\ users[u].expires_at < now
    /\ users' = [u \in UserIds |->
                    IF users[u] # NullDoc /\ users[u].is_verified
                       /\ users[u].expires_at < now
                    THEN [users[u] EXCEPT !.is_verified = FALSE]
                    ELSE users[u]]
    /\ UNCHANGED <<now, tokens, links, settings, req, reply, dlvars>>

\* database/operations/verification.py, cleanup_expired_tokens(hours)
cleanup_expired_tokens(hours) ==
    LET cutoff_time == now - hours * HourTicks
    IN /\ \E t \in TokenIds :
             tokens[t] # NullDoc /\ tokens[t].expires_at < cutoff_time
       /\ tokens' = [t \in TokenIds |->
                        IF tokens[t] # NullDoc
                           /\ tokens[t].expires_at < cutoff_time
                        THEN NullDoc ELSE tokens[t]]
       /\ UNCHANGED <<now, links, users, settings, req, reply, dlvars>>

\* A token minted GraceHours and one token lifetime ago is in the store, a
\* second one is minted now.
InitStore ==
    /\ now = 0
    /\ tokens = [t \in TokenIds |->
                    IF t = "t1"
                    THEN create_verification_token(
                             [x \in TokenIds |-> NullDoc], "t1", "u1",
                             TokenTtl, 0 - (GraceHours * HourTicks + TokenTtl))["t1"]
                    ELSE create_verification_token(
                             [x \in TokenIds |-> NullDoc], "t2", "u2",
                             TokenTtl, 0)["t2"]]
    /\ links = [t \in TokenIds |-> "deep_link"]
    /\ users = [u \in UserIds |-> NullDoc]
    /\ settings \in [verification_period_hours : {1},
                      file_access_limit : {DefaultAccessLimit}]
    /\ req = [r \in Slots |-> IdleReq]
    /\ reply = "none"
    /\ dl = [r \in Slots |-> IdleDl]
    /\ files = [p \in Posts |-> NullDoc]
    /\ active = {}
    /\ member = [u \in UserIds |-> [c \in Channels |-> "left"]]
    /\ copies = [p \in Posts |-> 0]

NextStore ==
    \/ Tick
    \/ \E h \in PeriodHours : bulk_verify_command(h, {"u1", "u2"})
    \/ verify_user_command("u1", 1)
    \/ unverify_user_command("u2")
    \/ cleanup_expired_verifications
    \/ cleanup_expired_tokens(GraceHours)
    \/ \E u \in UserIds : ttl_monitor(u)

SpecStore == InitStore /\ [][NextStore]_vars

(***************************************************************************)
(* Specification of one delivery with every outcome of its steps: the      *)
(* gateway and the store may fail at each call of send_file_to_user.       *)
(***************************************************************************)
\* increment_download_count catches the store's exception and returns
\* False: nothing is written and send_file_to_user goes on.
DlCountFileFails(r) ==
    /\ dl[r].pc = "count_file"
    /\ dl' = [dl EXCEPT ![r].pc = "count_user"]
    /\ UNCHANGED <<now, tokens, links, users, settings, req, reply, files,
                   active, member, copies>>

\* increment_user_file_access catches the store's exception and returns
\* False: nothing is written and send_file_to_user goes on to the sleep.
DlCountUserFails(r) ==
    /\ dl[r].pc = "count_user"
    /\ dl' = [dl EXCEPT ![r].pc = "sleep", ![r].wake = now + AutoDeleteTicks]
    /\ UNCHANGED <<now, tokens, links, users, settings, req, reply, files,
                   active, member, copies>>

\* After the sleep file_msg.delete() raises (the user removed the message):
\* the inner except logs it; the warning stays and no re-access message is
\* sent.
DlWakeFails(r) ==
    /\ dl[r].pc = "sleep"
    /\ now >= dl[r].wake
    /\ dl' = [dl EXCEPT ![r] = IdleDl]
    /\ UNCHANGED <<now, tokens, links, users, settings, req, reply, files,
                   active, member, copies>>

\* The user is verified for one hour and the files are uploaded.
InitDeliver ==
    /\ now = 0
    /\ tokens = [t \in TokenIds |-> NullDoc]
    /\ links = [t \in TokenIds |-> "none"]
    /\ users = verify_user_manually([u \in UserIds |-> NullDoc], "u1",
                                    VERIFICATION_PERIOD_HOURS, 0)
    /\ settings \in [verification_period_hours : {1},
                      file_access_limit : {DefaultAccessLimit}]
    /\ req = [r \in Slots |-> IdleReq]
    /\ reply = "none"
    /\ dl = [r \in Slots |-> IdleDl]
    /\ files = [p \in Posts |-> [download_count |-> 0]]
    /\ active = {}
    /\ member = [u \in UserIds |-> [c \in Channels |-> "left"]]
    /\ copies = [p \in Posts |-> 0]

\* The clock is followed to DlMaxTime and to the end of a running sleep.
TickDeliver ==
    /\ \/ now < DlMaxTime
       \/ \E r \in Slots : dl[r].pc = "sleep" /\ now < dl[r].wake
    /\ Tick

NextDeliver ==
    \/ TickDeliver
    \/ \E r \in Slots, p \in DlPosts : BotIdle /\ StartDownload(r, "u1", p)
    \/ \E r \in Slots, ok \in BOOLEAN : DlCopy(r, ok)
    \/ \E r \in Slots, ok \in BOOLEAN : DlWarn(r, ok)
    \/ \E r \in Slots : DlCountFile(r)
    \/ \E r \in Slots : DlCountFileFails(r)
    \/ \E r \in Slots : DlCountUser(r)
    \/ \E r \in Slots : DlCountUserFails(r)
    \/ \E r \in Slots : DlWake(r)
    \/ \E r \in Slots : DlWakeFails(r)

SpecDeliver == InitDeliver /\ [][NextDeliver]_vars

\* The process keeps running: the clock advances and every handler that has
\* started takes its next step.
FairDeliver ==
    /\ WF_vars(TickDeliver)
    /\ \A r \in Slots :
          /\ WF_vars(\E ok \in BOOLEAN : DlCopy(r, ok))
          /\ WF_vars(\E ok \in BOOLEAN : DlWarn(r, ok))
          /\ WF_vars(DlCountFile(r) \/ DlCountFileFails(r))
          /\ WF_vars(DlCountUser(r) \/ DlCountUserFails(r))
          /\ WF_vars(DlWake(r) \/ DlWakeFails(r))

SpecDeliverLive == SpecDeliver /\ FairDeliver

(***************************************************************************)
(* What the insert operations return to their caller: "inserted_id" for    *)
(* the id of a new document, "existing_id" for the id of the document      *)
(* found, "none" for None.                                                 *)
(***************************************************************************)
\* database/operations/files.py, add_file: None when the post_no exists.
add_file_result(F, post_no) ==
    IF F[post_no] # NullDoc THEN "none" ELSE "inserted_id"

\* database/operations/users.py, create_user: str(existing['_id']) when the
\* user_id exists.
create_user_result(U, u) ==
    IF U[u] # NullDoc THEN "existing_id" ELSE "inserted_id"

\* database/operations/verification.py, create_verification_token: no
\* lookup; insert_one raises on the unique index of token_id and the except
\* branch returns None.
create_verification_token_result(T, t) ==
    IF T[t] # NullDoc THEN "none" ELSE "inserted_id"

(***************************************************************************)
(* Specification of /start with a parameter (user_bot/handlers/start.py):  *)
(* the parameter is decoded and dispatched to a download request, to the   *)
(* validation of a token, to the welcome message or to "Invalid link".     *)
(***************************************************************************)
Digits == {"0", "1", "2", "3", "4"}

DigitValue(c) ==
    CASE c = "0" -> 0 [] c = "1" -> 1 [] c = "2" -> 2 [] c = "3" -> 3
      [] c = "4" -> 4

RECURSIVE DecimalValue(_)
\* The number written by a non-empty sequence of digits.
DecimalValue(ds) ==
    IF Len(ds) = 1 THEN DigitValue(ds[1])
    ELSE DecimalValue(SubSeq(ds, 1, Len(ds) - 1)) * 10 + DigitValue(ds[Len(ds)])

AllDigits(ds) == Len(ds) >= 1 /\ \A i \in 1..Len(ds) : ds[i] \in Digits

\* int(s) on the characters of Alphabet: an optional minus sign, then
\* digits; anything else raises ValueError.
int(s) ==
    IF AllDigits(s) THEN [ok |-> TRUE, value |-> DecimalValue(s)]
    ELSE IF Len(s) >= 2 /\ s[1] = "-" /\ AllDigits(Tail(s))
         THEN [ok |-> TRUE, value |-> 0 - DecimalValue(Tail(s))]
    ELSE [ok |-> FALSE, value |-> 0]

\* str.startswith
startswith(s, prefix) ==
    Len(s) >= Len(prefix) /\ SubSeq(s, 1, Len(prefix)) = prefix

\* decoded.split('-', 1)[1]: what follows the first "-".
after_dash(s) ==
    LET i == CHOOSE k \in 1..Len(s) :
                 s[k] = "-" /\ \A j \in 1..(k - 1) : s[j] # "-"
    IN SubSeq(s, i + 1, Len(s))

\* The token id a text names; a text that names no token of the model is an
\* id that is not in the collection.
token_of(s) ==
    IF s = <<"t", "1">> THEN "t1"
    ELSE IF s = <<"t", "2">> THEN "t2"
    ELSE "unknown"

\* handle_deep_link: which handler the parameter is given to.
handle_deep_link(parameter) ==
    LET decoded == decode_url_safe(parameter)
    IN IF decoded = ValueError THEN [kind |-> "invalid"]
       ELSE IF startswith(decoded, <<"g", "e", "t", "-">>)
            THEN IF int(after_dash(decoded)).ok
                 THEN [kind |-> "download",
                       post_no |-> int(after_dash(decoded)).value]
                 ELSE [kind |-> "invalid"]
       ELSE IF startswith(decoded, <<"v", "e", "r", "i", "f", "y", "-">>)
            THEN [kind |-> "verify", token_id |-> after_dash(decoded)]
       ELSE [kind |-> "welcome"]

\* The payloads users send.
Payloads ==
    {<<"g", "e", "t", "-", "1">>, <<"g", "e", "t", "-", "3">>,
     <<"g", "e", "t", "-", "1", "0">>, <<"g", "e", "t", "-", "0">>,
     <<"g", "e", "t", "-", "-", "1">>, <<"g", "e", "t", "-", "x">>,
     <<"g", "e", "t", "-">>, <<"g", "e", "t">>,
     <<"x", "e", "t", "-", "1">>,
     <<"v", "e", "r", "i", "f", "y", "-", "t", "1">>,
     <<"v", "e", "r", "i", "f", "y", "-", "t", "2">>}

\* urlsafe_b64encode with its padding kept.
encode_padded(text) ==
    LET e == encode_url_safe(text)
    IN e \o [i \in 1..((4 - (Len(e) % 4)) % 4) |-> Pad]

\* The start parameters: the payloads encoded without and with padding, and
\* strings that are no base64 text.
StartParameters ==
    {encode_url_safe(x) : x \in Payloads}
        \cup {encode_padded(x) : x \in Payloads}
        \cup {<<25>>, <<25, 54, 21, 52, 11>>}

\* handle_deep_link of every start parameter, computed once.
dispatch_table == [x \in StartParameters |-> handle_deep_link(x)]

\* start_command with context.args[0] = parameter.
start_command(r, u, parameter) ==
    LET d == dispatch_table[parameter]
    IN IF d.kind = "download" THEN StartDownload(r, u, d.post_no)
       ELSE IF d.kind = "verify" THEN StartVerify(r, u, token_of(d.token_id))
       ELSE /\ r = FreeSlot(dl)
            /\ users' = create_user(users, u)
            /\ reply' = IF d.kind = "welcome" THEN "WELCOME"
                        ELSE "INVALID_LINK"
            /\ UNCHANGED <<now, tokens, links, settings, req, dlvars>>

NextDeepLink ==
    \/ TickDeliver
    \/ \E r \in Slots, x \in StartParameters :
          BotIdle /\ start_command(r, "u1", x)
    \/ \E r \in Slots, ok \in BOOLEAN : DlCopy(r, ok)
    \/ \E r \in Slots : DlWarn(r, TRUE)
    \/ \E r \in Slots : DlCountFile(r)
    \/ \E r \in Slots : DlCountUser(r)
    \/ \E r \in Slots : DlWake(r)

SpecDeepLink == InitDeliver /\ [][NextDeepLink]_vars

(***************************************************************************)
(* Response status of the web endpoints for a token query parameter: the   *)
(* empty sequence is a request without the parameter.                      *)
(***************************************************************************)
\* The token parameters requests carry: none, text that is no base64, the
\* encoded ids of the model's tokens and an encoded id that was never
\* issued.
WebTokenParams ==
    {<<>>, <<25>>, encode_url_safe(<<"t", "1">>),
     encode_url_safe(<<"t", "2">>), encode_url_safe(<<"x">>)}

\* verification_server/routes/shortlink.py, handle_redirect: the status of
\* the response.
handle_redirect_status(T, encrypted_token, n) ==
    IF Len(encrypted_token) = 0 THEN 400
    ELSE IF decode_url_safe(encrypted_token) = ValueError THEN 400
    ELSE LET token_record ==
                 get_verification_token(
                     T, token_of(decode_url_safe(encrypted_token)))
         IN IF token_record = NullDoc THEN 404
            ELSE IF token_record.expires_at < n THEN 410
            ELSE IF token_record.status = "completed" THEN 410
            ELSE 302

\* verification_server/routes/verify.py, verification_page: the status of
\* the response.
verification_page_status(T, encrypted_token, n) ==
    IF Len(encrypted_token) = 0 THEN 400
    ELSE IF decode_url_safe(encrypted_token) = ValueError THEN 400
    ELSE LET token_record ==
                 get_verification_token(
                     T, token_of(decode_url_safe(encrypted_token)))
         IN IF token_record = NullDoc THEN 404
            ELSE IF token_record.expires_at < n THEN 410
            ELSE IF token_record.status = "completed" THEN 410
            ELSE IF token_record.status # "in_progress" THEN 400
            ELSE 200

\* Both statuses of every token parameter for the store and the time.
web_status_table(T, n) ==
    [x \in WebTokenParams |->
        [landing |-> handle_redirect_status(T, x, n),
         page |-> verification_page_status(T, x, n)]]

(***************************************************************************)
(* The password in the caption of a delivered file.  The admin setting     *)
(* file_password is the field file_password of settings; a file record     *)
(* carries the password it was uploaded with; the caption of the last copy *)
(* sent is the reply.                                                      *)
(***************************************************************************)
Passwords == {"pw1", "pw2"}

UploadPosts == {1, 2}

\* database/operations/settings.py, set_setting for the key file_password.
set_setting_file_password(S, setting_value) ==
    [S EXCEPT !.file_password = setting_value]

\* admin_bot/handlers/settings.py, receive_password: /setpassword followed
\* by the new password.
receive_password(password) ==
    /\ settings' = set_setting_file_password(settings, password)
    /\ UNCHANGED <<now, tokens, links, users, req, reply, dlvars>>

\* database/operations/files.py, add_file: nothing is written when the
\* post_no exists.
add_file(F, post_no, password) ==
    IF F[post_no] # NullDoc THEN F
    ELSE [F EXCEPT ![post_no] = [download_count |-> 0,
                                 password |-> password]]

\* admin_bot/handlers/upload.py, confirm_upload: the password of the new
\* file record is the value of the setting at upload time.
confirm_upload(post_no) ==
    /\ files' = add_file(files, post_no, settings.file_password)
    /\ UNCHANGED <<now, tokens, links, users, settings, req, reply, dl,
                   active, member, copies>>

\* The f-string "password - {password}".
password_caption(password) ==
    CASE password = "pw1" -> "password - pw1"
      [] password = "pw2" -> "password - pw2"
      [] OTHER -> "password - default123"

\* user_bot/handlers/download.py, send_file_to_user: the caption.
file_caption(file_record) == password_caption(file_record.password)

\* The caption built from the value of the setting.
file_caption_from_setting(S) == password_caption(S.file_password)

\* context.bot.copy_message(..., caption=file_caption), the copy arriving.
DlCopyCaption(r) ==
    /\ dl[r].pc = "copy"
    /\ copies' = [copies EXCEPT ![dl[r].post] = @ + 1]
    /\ dl' = [dl EXCEPT ![r].pc = "warn"]
    /\ reply' = file_caption(files[dl[r].post])
    /\ UNCHANGED <<now, tokens, links, users, settings, req, files, active,
                   member>>

\* The user is verified for one hour, the setting has the value of init_db
\* and nothing is uploaded yet.
InitCaption ==
    /\ now = 0
    /\ tokens = [t \in TokenIds |-> NullDoc]
    /\ links = [t \in TokenIds |-> "none"]
    /\ users = verify_user_manually([u \in UserIds |-> NullDoc], "u1",
                                    VERIFICATION_PERIOD_HOURS, 0)
    /\ settings = [verification_period_hours |-> 1,
                   file_access_limit |-> DefaultAccessLimit,
                   file_password |-> "default123"]
    /\ req = [r \in Slots |-> IdleReq]
    /\ reply = "none"
    /\ dl = [r \in Slots |-> IdleDl]
    /\ files = [p \in Posts |-> NullDoc]
    /\ active = {}
    /\ member = [u \in UserIds |-> [c \in Channels |-> "left"]]
    /\ copies = [p \in Posts |-> 0]

NextCaption ==
    \/ TickDeliver
    \/ \E password \in Passwords : receive_password(password)
    \/ \E p \in UploadPosts : confirm_upload(p)
    \/ \E r \in Slots, p \in UploadPosts :
            BotIdle /\ StartDownload(r, "u1", p)
    \/ \E r \in Slots : DlCopyCaption(r)
    \/ \E r \in Slots : DlWarn(r, TRUE)
    \/ \E r \in Slots : DlCountFile(r)
    \/ \E r \in Slots : DlCountUser(r)
    \/ \E r \in Slots : DlWake(r)

SpecCaption == InitCaption /\ [][NextCaption]_vars

(***************************************************************************)
(* The membership gate when the store fails while the active channels are  *)
(* read: store_ok is FALSE when find raises.                               *)
(***************************************************************************)
\* database/operations/channels.py, get_active_channels: the except branch
\* logs the error and returns the empty list.
get_active_channels_read(A, store_ok) ==
    IF store_ok THEN get_active_channels(A) ELSE <<>>

\* user_bot/utils/force_sub.py, get_unsubscribed_channels: the pair it
\* returns; an empty listing is "no force subscribe channels configured".
get_unsubscribed_channels_read(A, M, u, store_ok) ==
    LET channels == get_active_channels_read(A, store_ok)
        unsubscribed ==
            SelectSeq(channels, LAMBDA c : ~check_user_subscribed(M[u][c]))
    IN IF Len(channels) = 0
       THEN [is_subscribed_all |-> TRUE, unsubscribed |-> <<>>]
       ELSE [is_subscribed_all |-> Len(unsubscribed) = 0,
             unsubscribed |-> unsubscribed]

\* The download request with the read of the channels succeeding or
\* failing.
StartDownloadRead(r, u, p, store_ok) ==
    /\ dl[r].pc = "idle"
    /\ r = FreeSlot(dl)
    /\ TotalCopies < MaxCopies
    /\ users' = create_user(users, u)
    /\ LET out ==
            IF ~get_unsubscribed_channels_read(active, member, u,
                                               store_ok).is_subscribed_all
            THEN "FORCE_SUB"
            ELSE IF ~check_user_verification(users', u, now)
                 THEN "VERIFICATION"
            ELSE IF get_file_by_post_no(files, p) = NullDoc
                 THEN "FILE_NOT_FOUND"
            ELSE IF limit_reached(users'[u]) THEN "LIMIT_REACHED"
            ELSE "copy"
       IN IF out = "copy"
          THEN /\ dl' = [dl EXCEPT ![r] = [pc |-> "copy", user |-> u,
                                           post |-> p, wake |-> 0]]
               /\ UNCHANGED reply
          ELSE /\ reply' = out
               /\ UNCHANGED dl
    /\ UNCHANGED <<now, tokens, links, settings, req, files, active, member,
                   copies>>

NextChannelRead ==
    \/ \E c \in Channels : toggle_channel(c)
    \/ \E c \in Channels, st \in MemberStatuses : SetMembership("u1", c, st)
    \/ \E r \in Slots, p \in DlPosts, store_ok \in BOOLEAN :
            BotIdle /\ StartDownloadRead(r, "u1", p, store_ok)

SpecChannelRead == InitForceSub /\ [][NextChannelRead]_vars

\* user_bot/utils/verification.py, check_verification_eligibility: the
\* reason it returns.
check_verification_eligibility(U, u, n) ==
    IF get_user_by_id(U, u) = NullDoc THEN "user_not_found"
    ELSE IF ~U[u].is_verified THEN "not_verified"
    ELSE IF U[u].expires_at = None THEN "no_expiry"
    ELSE IF U[u].expires_at < n THEN "expired"
    ELSE IF U[u].files_accessed_count >= HardLimit THEN "limit_reached"
    ELSE "eligible"

\* The reasons with which check_verification_eligibility denies that the
\* user is verified.
NotVerifiedReasons == {"user_not_found", "not_verified", "no_expiry",
                       "expired"}

(***************************************************************************)
(* Properties.                                                             *)
(***************************************************************************)
status_of(T, t) == IF T[t] = NullDoc THEN "none" ELSE T[t].status

\* The entitlement a user has: a missing record and a new record are both
\* "not verified, nothing consumed".
entitlement(U, u) == IF U[u] = NullDoc THEN NewUserDoc ELSE U[u]

\* A request passes from its checks to the copy.
EntersCopy(r) == dl[r].pc = "idle" /\ dl'[r].pc = "copy"

\* A validate request passes its checks (it is accepted).
Accepted(r) == req[r].pc = "idle" /\ req'[r].pc = "mark_completed"

\* C1: a file is copied to a user only in a request that passed the
\* membership gate (member of every active channel), the verification gate
\* (verified, not expired) and the quota gate (post already seen, or fewer
\* than file_access_limit files consumed, files_consumed read as the stored
\* counter or as the number of posts seen); copies are sent by such requests
\* only.
C1_CopyOnlyAfterGates ==
    [][/\ \A r \in Slots :
            EntersCopy(r) =>
                LET u == dl'[r].user
                    p == dl'[r].post
                IN /\ \A c \in active :
                        member[u][c] \notin {"left", "kicked", "error"}
                   /\ users'[u] # NullDoc
                   /\ users'[u].is_verified
                   /\ ~(now > users'[u].expires_at)
                   /\ \/ p \in users'[u].files_accessed
                      \/ users'[u].files_accessed_count
                            < settings.file_access_limit
                      \/ Cardinality(users'[u].files_accessed)
                            < settings.file_access_limit
        /\ (copies' # copies => \E q \in Slots : dl[q].pc = "copy")]_vars

\* C2: the user who follows the link issued for a token at least
\* min_traversal_seconds after the mint and not after its expiry, the token
\* untouched by anything but the flow of the link, is accepted by validate.
C2_IssuedLinkIsAccepted ==
    [][\A r \in Slots, t \in TokenIds :
            (/\ FollowLink(r, t)
             /\ tokens[t].status \in {"pending", "in_progress"}
             /\ now - tokens[t].created_at >= TooFastSeconds
             /\ now <= tokens[t].expires_at)
            => (Accepted(r) /\ req'[r].token = t)]_vars

\* C3: a validate request is accepted only if the token it read exists,
\* belongs to the calling user and has the stored status in_progress; a
\* request that reads an unknown token, a token of another user or a token
\* whose status is pending, completed or expired is not accepted, writes no
\* token and changes no user's entitlement.
C3_AcceptOnlyInFlight ==
    [][\A r \in Slots, u \in UserIds, t \in TokenIds :
            StartVerify(r, u, t) =>
                LET tok == get_verification_token(tokens, t)
                    good == /\ tok # NullDoc
                            /\ tok.user_id = u
                            /\ tok.status = "in_progress"
                IN /\ Accepted(r) => good
                   /\ ~good =>
                        /\ req' = req
                        /\ tokens' = tokens
                        /\ \A v \in UserIds :
                              entitlement(users', v) = entitlement(users, v)]_vars

\* C3 witness: a validate request was accepted and has verified its user.
C3_Witness ==
    /\ reply = "VERIFIED_SUCCESS"
    /\ \E u \in UserIds : users[u] # NullDoc /\ users[u].is_verified
    /\ \E t \in TokenIds : status_of(tokens, t) = "completed"

\* C4: no endpoint of the web server sets a token to completed or changes
\* a user record.
C4_WebNeverCompletes ==
    [][\A t \in TokenIds, u \in UserIds :
            (handle_redirect(t) \/ complete_verification(t, u)) =>
                /\ users' = users
                /\ \A k \in TokenIds :
                      status_of(tokens', k) = "completed"
                          => status_of(tokens, k) = "completed"]_vars

\* C5: every validate request that reads a token with the stored status
\* pending answers with the bypass-detected screen and verifies nobody.
C5_PendingIsBypass ==
    [][\A r \in Slots, u \in UserIds, t \in TokenIds :
            (StartVerify(r, u, t) /\ status_of(tokens, t) = "pending")
            => /\ reply' = "BYPASS_DETECTED"
               /\ req' = req
               /\ \A v \in UserIds :
                     entitlement(users', v) = entitlement(users, v)]_vars

\* C5 (as the code has it): a validate request of the token's own user, not
\* after expires_at, that reads the stored status pending answers with the
\* bypass-detected screen, is not accepted, writes no token and verifies
\* nobody.
C5_OwnerPendingIsBypass ==
    [][\A r \in Slots, u \in UserIds, t \in TokenIds :
            (/\ StartVerify(r, u, t)
             /\ status_of(tokens, t) = "pending"
             /\ tokens[t].user_id = u
             /\ ~(tokens[t].expires_at < now))
            => /\ reply' = "BYPASS_DETECTED"
               /\ req' = req
               /\ tokens' = tokens
               /\ \A v \in UserIds :
                     entitlement(users', v) = entitlement(users, v)]_vars

\* C5 witness: the bypass-detected screen was sent for the token "t1" while
\* its stored status was pending (a status no token returns to).
C5_Witness ==
    /\ reply = "BYPASS_DETECTED"
    /\ status_of(tokens, "t1") = "pending"
    /\ users[tokens["t1"].user_id] # NullDoc
    /\ ~users[tokens["t1"].user_id].is_verified

\* C6: a token whose stored status is completed or expired keeps that
\* status in every step.
C6_TerminalStaysTerminal ==
    [][\A t \in TokenIds :
            status_of(tokens, t) \in {"completed", "expired"}
            => status_of(tokens', t) = status_of(tokens, t)]_vars

\* C7: two validate requests for the same token are never both accepted.
C7_OneAccepted ==
    \A r1, r2 \in Slots :
        (r1 # r2 /\ req[r1].pc # "idle" /\ req[r2].pc # "idle")
        => req[r1].token # req[r2].token

\* C8: each user has at most one token whose status is pending or
\* in_progress.
C8_SingleOutstanding ==
    \A u \in UserIds :
        Cardinality({t \in TokenIds :
                        /\ tokens[t] # NullDoc
                        /\ tokens[t].user_id = u
                        /\ tokens[t].status \in {"pending", "in_progress"}})
            <= 1

\* C9: once now > expires_at, no step moves the token to in_progress or to
\* completed, no validate request for it is accepted and no user is verified
\* by an endpoint called with it.
C9_ExpiredIsDead ==
    [][\A t \in TokenIds :
            (tokens[t] # NullDoc /\ now > tokens[t].expires_at)
            => /\ status_of(tokens', t) \in {"in_progress", "completed"}
                    => status_of(tokens', t) = status_of(tokens, t)
               /\ \A r \in Slots : ~(Accepted(r) /\ req'[r].token = t)
               /\ \A u \in UserIds :
                     complete_verification(t, u) => users' = users]_vars

\* C10: a validate request is accepted only when at least
\* min_dwell_seconds have passed since the token was advanced to
\* in_progress (updated_at holds the time of that write).
C10_DwellFloor ==
    [][\A r \in Slots :
            Accepted(r) =>
                now - tokens[req'[r].token].updated_at >= StateChangeSeconds]_vars

\* A validate request of user u for token t that leaves everything but the
\* screen as it was.
Rejected(screen) ==
    /\ reply' = screen
    /\ req' = req
    /\ tokens' = tokens
    /\ \A v \in UserIds : entitlement(users', v) = entitlement(users, v)

\* C11: a validate request of the token's user for an in_progress token,
\* not after expires_at, gets the bypass-detected screen (token and
\* entitlement untouched) when now - created_at < 5 and is accepted when
\* now - created_at >= 5.
C11_TraversalFloor ==
    [][\A r \in Slots, u \in UserIds, t \in TokenIds :
            (/\ StartVerify(r, u, t)
             /\ status_of(tokens, t) = "in_progress"
             /\ tokens[t].user_id = u
             /\ now <= tokens[t].expires_at)
            => IF now - tokens[t].created_at < TooFastSeconds
               THEN Rejected("BYPASS_DETECTED")
               ELSE Accepted(r) /\ req'[r].token = t]_vars

\* C11 witness: a request accepted exactly 5 s after the mint (an accepted
\* request read the token no later than now and no earlier than 5 s after
\* created_at).
C11_Witness ==
    \E r \in Slots :
        /\ req[r].pc = "mark_completed"
        /\ now = tokens[req[r].token].created_at + TooFastSeconds

\* C12: a validate request of the token's user for an in_progress token at
\* least 5 s old is accepted when now <= expires_at and gets the
\* invalid-token screen, entitlement untouched, when now > expires_at.
C12_ExpiryBoundary ==
    [][\A r \in Slots, u \in UserIds, t \in TokenIds :
            (/\ StartVerify(r, u, t)
             /\ status_of(tokens, t) = "in_progress"
             /\ tokens[t].user_id = u
             /\ now - tokens[t].created_at >= TooFastSeconds)
            => IF now <= tokens[t].expires_at
               THEN Accepted(r) /\ req'[r].token = t
               ELSE Rejected("TOKEN_ERROR")]_vars

\* C12 witness: a request accepted at now = expires_at (the token was
\* advanced at this very instant, so the request read it now).
C12_Witness ==
    \E r \in Slots :
        /\ req[r].pc = "mark_completed"
        /\ now = tokens[req[r].token].expires_at
        /\ tokens[req[r].token].updated_at = now
        /\ tokens[req[r].token].status = "in_progress"

\* The user passes the membership and verification gates and the post
\* exists: what is left of the request is the quota check.
ReachesQuotaCheck(u, p) ==
    /\ users[u] # NullDoc
    /\ force_sub_passed(active, member, u)
    /\ check_user_verification(users, u, now)
    /\ files[p] # NullDoc

\* C13: the update after a delivery of a post already in files_accessed
\* leaves files_accessed_count and files_accessed as they were.
C13_RedeliveryCountsNothing ==
    [][\A r \in Slots :
            (/\ DlCountUser(r)
             /\ dl[r].post \in users[dl[r].user].files_accessed)
            => /\ users'[dl[r].user].files_accessed_count
                    = users[dl[r].user].files_accessed_count
               /\ users'[dl[r].user].files_accessed
                    = users[dl[r].user].files_accessed]_vars

\* C14: for every user, files_accessed_count is the number of posts in
\* files_accessed.
C14_CountIsSetSize ==
    \A u \in UserIds :
        users[u] # NullDoc
        => users[u].files_accessed_count
            = Cardinality(users[u].files_accessed)

\* C15: a request that passes the membership and verification gates for a
\* post already in files_accessed is delivered, whatever
\* files_accessed_count is.
C15_ReaccessBypassesQuota ==
    [][\A r \in Slots, u \in UserIds, p \in Posts :
            (/\ StartDownload(r, u, p)
             /\ ReachesQuotaCheck(u, p)
             /\ p \in users[u].files_accessed)
            => EntersCopy(r)]_vars

\* C16: a request that reaches the quota check for a post not in
\* files_accessed (the counter being the number of posts seen) is delivered
\* when files_accessed_count = file_access_limit - 1 and gets the
\* limit-reached screen, nothing copied or counted, when
\* files_accessed_count = file_access_limit.
C16_QuotaBoundary ==
    [][\A r \in Slots, u \in UserIds, p \in Posts :
            (/\ StartDownload(r, u, p)
             /\ ReachesQuotaCheck(u, p)
             /\ p \notin users[u].files_accessed
             /\ users[u].files_accessed_count
                    = Cardinality(users[u].files_accessed))
            => /\ users[u].files_accessed_count
                    = settings.file_access_limit - 1 => EntersCopy(r)
               /\ users[u].files_accessed_count = settings.file_access_limit
                    => /\ reply' = "LIMIT_REACHED"
                       /\ dl' = dl
                       /\ copies' = copies
                       /\ users' = users]_vars

\* C17: the number of distinct posts delivered to a user in one
\* verification window (the posts in files_accessed) never exceeds
\* file_access_limit.
C17_QuotaNeverExceeded ==
    \A u \in UserIds :
        users[u] # NullDoc
        => Cardinality(users[u].files_accessed) <= settings.file_access_limit

C19_ExhaustedUserCanMint ==
    [][\A u \in UserIds, sent \in BOOLEAN :
            (/\ handle_verify_now(u, "t1", sent)
             /\ tokens["t1"] = NullDoc
             /\ users[u] # NullDoc
             /\ users[u].is_verified
             /\ ~(now > users[u].expires_at)
             /\ users[u].files_accessed_count >= settings.file_access_limit)
            => status_of(tokens', "t1") = "pending"]_vars

\* C20: each verification check of the code passes a user exactly when the
\* user's flag is set and now <= expires_at.
C20_GateIffVerifiedNotExpired ==
    \A u \in UserIds :
        LET ok == /\ users[u] # NullDoc
                  /\ users[u].is_verified
                  /\ users[u].expires_at # None
                  /\ now <= users[u].expires_at
        IN /\ (check_verification(users, u, now) = "verified") <=> ok
           /\ is_user_verified(users, u, now) <=> ok

\* C21: in every reachable state every user record with is_verified = TRUE
\* has verified_at <= expires_at, whatever token verifications and operator
\* verify, bulk-verify, extend and unverify commands came before.
C21_VerifiedAtBeforeExpiry ==
    \A u \in UserIds :
        (users[u] # NullDoc /\ users[u].is_verified)
            => users[u].verified_at <= users[u].expires_at

\* The position of a channel in the stored display order.
order_of(c) == CHOOSE i \in 1..Len(ChannelOrder) : ChannelOrder[i] = c

\* The gateway statuses that are not a membership.
NotMember(status) == status \in {"left", "kicked", "error"}

\* C22: for every user the membership check returns exactly the active
\* channels the user is not a member of, in the stored display order and
\* each once, never an inactive one; the subscribe screen has one button per
\* returned channel in that order and a retry link that decodes to
\* get-<post_no>.
C22_UnsubscribedListAndCta ==
    \A u \in UserIds, p \in Posts :
        LET un == get_unsubscribed_channels(active, member, u)
            res == check_force_subscribe(active, member, u, p)
        IN /\ {un[i] : i \in 1..Len(un)}
                 = {c \in active : NotMember(member[u][c])}
           /\ \A i, j \in 1..Len(un) :
                 i < j => order_of(un[i]) < order_of(un[j])
           /\ res.ok <=> (Len(un) = 0)
           /\ ~res.ok =>
                 /\ res.keyboard.buttons = un
                 /\ decode_url_safe(res.keyboard.try_again)
                        = <<"g", "e", "t", "-">> \o str(p)

\* The user was shown the subscribe screen while both channels are active and
\* the user is a member of neither: both are listed.
C22_Witness ==
    /\ reply = "FORCE_SUB"
    /\ active = Channels
    /\ Len(get_unsubscribed_channels(active, member, "u1")) = 2

C25_DeliveryLeadsToDeletion ==
    \A r \in Slots :
        (dl[r].pc = "warn") ~> (dl[r].pc = "idle" /\ reply = "FILE_DELETED")

\* C26: once the copy has reached the user, no step of the same request
\* abandons it before the counters are updated and the deletion is
\* enrolled (the handler sleeping towards the deletion).
C26_AfterCopyRunsToEnrollment ==
    [][\A r \in Slots :
          dl[r].pc \in {"warn", "count_file", "count_user"}
              => dl'[r].pc # "idle"]_vars

\* C27: when the copy fails with a gateway error the request ends with the
\* file's download_count, the user record and the delivered copies unchanged
\* and without a deletion enrolled.
C27_FailedCopyMutatesNothing ==
    [][\A r \in Slots :
          (dl[r].pc = "copy" /\ dl'[r].pc \notin {"copy", "warn"})
              => /\ dl'[r] = IdleDl
                 /\ reply' = "ERROR_SENDING"
                 /\ files' = files
                 /\ users' = users
                 /\ copies' = copies]_vars

\* A copy failed after an earlier delivery of the same request stream had
\* been counted: the counters stay at one.
C27_Witness ==
    /\ reply = "ERROR_SENDING"
    /\ TotalCopies = 1
    /\ users["u1"].files_accessed_count = 1
    /\ \A r \in Slots : dl[r].pc = "idle"

\* C28: a counter update that fails after a successful send is attempted
\* again: the request does not go from the update of the user's counter to
\* the sleep with the user record unwritten, nor from the update of the
\* file's counter onwards with the file record unwritten.
C28_FailedUpdateIsRetried ==
    [][\A r \in Slots :
          /\ (dl[r].pc = "count_user" /\ dl'[r].pc = "sleep")
                => users' # users
          /\ (dl[r].pc = "count_file" /\ dl'[r].pc = "count_user")
                => files' # files]_vars

\* C29: an insert with a primary key that is already in its collection
\* (post_no, user id, token id) reports a conflict to the caller, None, and
\* leaves the existing record as it is.
C29_DuplicateInsertIsConflict ==
    /\ \A p \in Posts :
          files[p] # NullDoc => add_file_result(files, p) = "none"
    /\ \A u \in UserIds :
          users[u] # NullDoc
              => /\ create_user_result(users, u) = "none"
                 /\ create_user(users, u) = users
    /\ \A t \in TokenIds :
          tokens[t] # NullDoc
              => create_verification_token_result(tokens, t) = "none"

\* A payload get-<decimal post_no >= 1>.
IsGetPayload(s) ==
    /\ startswith(s, <<"g", "e", "t", "-">>)
    /\ AllDigits(SubSeq(s, 5, Len(s)))
    /\ DecimalValue(SubSeq(s, 5, Len(s))) >= 1

\* A payload verify-<token_id>.
IsVerifyPayload(s) == startswith(s, <<"v", "e", "r", "i", "f", "y", "-">>)

\* C30: a start parameter of a user of the bot, padded or not, is given to the download handler
\* exactly when it decodes to get-<decimal post_no >= 1>, with that post
\* number, and to the token validation exactly when it decodes to
\* verify-<token_id>, with that token id; every other parameter starts
\* neither.
C30_DeepLinkDispatch ==
    \A u \in UserIds, x \in StartParameters :
        LET s == decode_url_safe(x)
            d == handle_deep_link(x)
        IN users[u] # NullDoc =>
           /\ d.kind = "download"
                 <=> (s # ValueError /\ IsGetPayload(s))
           /\ (d.kind = "download" /\ IsGetPayload(s))
                 => d.post_no = DecimalValue(SubSeq(s, 5, Len(s)))
           /\ d.kind = "verify"
                 <=> (s # ValueError /\ IsVerifyPayload(s))
           /\ d.kind = "verify" => d.token_id = SubSeq(s, 8, Len(s))

\* C31: both web endpoints answer 400 when the token parameter is missing or
\* cannot be decoded, 404 when the decoded id is unknown, 410 when the token
\* is expired (its time has passed or its status is expired) or completed;
\* otherwise the landing answers 302 and the page of an in_progress token
\* 200.
C31_ResponseCodes ==
    \A x \in WebTokenParams :
        LET res == web_status_table(tokens, now)[x]
            s == decode_url_safe(x)
            tok == get_verification_token(tokens, token_of(s))
        IN IF Len(x) = 0 \/ s = ValueError
           THEN res.landing = 400 /\ res.page = 400
           ELSE IF tok = NullDoc
           THEN res.landing = 404 /\ res.page = 404
           ELSE IF \/ tok.expires_at < now
                   \/ tok.status \in {"expired", "completed"}
           THEN res.landing = 410 /\ res.page = 410
           ELSE /\ res.landing = 302
                /\ tok.status = "in_progress" => res.page = 200


\* C32: a landing on a token that is already in_progress leaves its record
\* unchanged: neither the status nor the time at which it entered
\* in_progress (updated_at) is written again.
C32_SecondLandingChangesNothing ==
    [][\A t \in TokenIds :
          (handle_redirect(t) /\ status_of(tokens, t) = "in_progress")
              => tokens'[t] = tokens[t]]_vars


\* C33: the landing advances and redirects only a token that is pending or
\* already in_progress; a token of any other status is left unchanged.
C33_LandingRedirectsOnlyFromPendingOrInProgress ==
    [][\A t \in TokenIds :
          (tokens'[t] # tokens[t] /\ handle_redirect(t))
              => status_of(tokens, t) \in {"pending", "in_progress"}]_vars


\* C34: a validate request that is rejected as a bypass because the stored
\* status of its token is pending retires the token: its status is expired
\* after the rejection.
C34_BypassRejectionRetiresToken ==
    [][\A r \in Slots, u \in UserIds, t \in TokenIds :
          (/\ status_of(tokens, t) = "pending"
           /\ validate_checks(get_verification_token(tokens, t), u, now)
                  = "BYPASS_DETECTED"
           /\ StartVerify(r, u, t))
              => status_of(tokens', t) = "expired"]_vars


\* C35: the bookkeeping of a delivery is one update: the download count of
\* a file is incremented in a step exactly when the record of the user is
\* updated in that step, and files_accessed_count grows by one exactly when
\* the post is new in files_accessed.
C35_BookkeepingIsOneUpdate ==
    [][\A r \in Slots :
          dl[r].pc \in {"count_file", "count_user"} /\ dl'[r] # dl[r] =>
              LET u == dl[r].user
                  p == dl[r].post
              IN /\ (files'[p].download_count = files[p].download_count + 1)
                        <=> (p \in users'[u].files_accessed /\ users' # users)
                 /\ users' # users =>
                        users'[u].files_accessed_count =
                            users[u].files_accessed_count
                                + (IF p \in users[u].files_accessed
                                   THEN 0 ELSE 1)]_vars


\* C36: the caption of every delivered file carries the value of the
\* setting file_password at the time of the delivery.
C36_CaptionCarriesCurrentPassword ==
    [][\A r \in Slots :
          dl[r].pc = "copy" /\ dl'[r].pc = "warn"
              => reply' = file_caption_from_setting(settings)]_vars


\* C37: a request of a user who misses an active channel does not pass the
\* membership gate when the store fails while the active channels are read:
\* it ends with the subscribe screen.
C37_ChannelReadFailureDoesNotPass ==
    [][\A r \in Slots, p \in DlPosts :
          (/\ Len(get_unsubscribed_channels(active, member, "u1")) > 0
           /\ StartDownloadRead(r, "u1", p, FALSE))
              => reply' = "FORCE_SUB"]_vars


\* C38: the validate path completes the token and verifies its user
\* together: the step that sets the token completed also leaves the user
\* verified from now with an emptied file count.
C38_CompletionAndVerificationTogether ==
    [][\A r \in Slots :
          (req[r].pc = "mark_completed" /\ ValidateMarkCompleted(r))
              => /\ users'[req[r].user].is_verified
                 /\ users'[req[r].user].verified_at = now
                 /\ users'[req[r].user].files_accessed_count = 0]_vars


\* C39: while a delivery waits for its deletion time the bot handles other
\* updates: with a delivery asleep and a copy still to send, a download
\* request can be started.
C39_BotHandlesUpdatesDuringWait ==
    \A r \in Slots :
        (dl[r].pc = "sleep" /\ TotalCopies < MaxCopies)
            => ENABLED (\E r2 \in Slots, p \in DlPosts :
                            BotIdle /\ StartDownload(r2, "u1", p))


\* C40: is_user_verified, check_verification, check_verification_eligibility
\* and the already-verified check of handle_verify_now give the same answer
\* to "is this user verified" for every user record and every time.
C40_VerifiedChecksAgree ==
    \A u \in UserIds :
        LET a == is_user_verified(users, u, now)
            b == check_verification(users, u, now) = "verified"
            c == check_verification_eligibility(users, u, now)
                     \notin NotVerifiedReasons
            d == AlreadyVerified(users, u, now)
        IN (a <=> b) /\ (b <=> c) /\ (c <=> d)

====
